---- MODULE Spec2Model ----
(***************************************************************************)
(* A model of the Proxmox Terraform provider: the provider's Configure     *)
(* (validation and construction of the ProxmoxClient), the storages data   *)
(* source's Configure and Read, ProxmoxClient.DoRequest, the decoding of   *)
(* the response body and the projection of each raw record into a          *)
(* StorageModel.                                                           *)
(*                                                                         *)
(* Strings are sequences of characters.  The character "h" stands for a   *)
(* well-formed origin (scheme and host, such as https://pve:8006), "DEL"   *)
(* for a control byte (0x7f), which net/url refuses.                       *)
(***************************************************************************)
EXTENDS Integers, Sequences, FiniteSets, TLC

VARIABLES
    provReq,     \* the provider.ConfigureRequest received: <<>> or <<config>>
    provResp,    \* the provider.ConfigureResponse
    client,      \* StoragesDataSource.client: Nil or Ptr(ProxmoxClient)
    dsResp,      \* Diagnostics of the last datasource.ConfigureResponse
    httpResp,    \* what the server answered to the last Read: <<>> or <<response>>
    readResp,    \* the datasource.ReadResponse of the last Read
    requests,    \* the requests handed to HTTPClient.Do, in order
    reads,       \* the number of Read invocations so far
    build,       \* the instruction set the plugin was built for
    raw,         \* (projection only) the raw record drawn
    projected    \* (projection only) <<>> or <<the StorageModel made of raw>>

vars == <<provReq, provResp, client, dsResp, httpResp, readResp, requests, reads, build, raw, projected>>

-----------------------------------------------------------------------------
(* Bounds *)

MaxEndpointLen == 2
MaxTokenLen == 2
MaxReads == 2
MaxRecords == 2

-----------------------------------------------------------------------------
(* Pointers and strings *)

Nil == <<>>
Ptr(x) == <<x>>
Deref(p) == p[1]

Str(n, chars) == UNION {[1..k -> chars] : k \in 0..n}

\* strings.Contains(s, c) for a one-character c
Contains(s, c) == \E i \in DOMAIN s : s[i] = c

HasSuffix(s, suffix) ==
    /\ Len(s) >= Len(suffix)
    /\ SubSeq(s, Len(s) - Len(suffix) + 1, Len(s)) = suffix

TrimSuffixNone(s, suffix) == s
\* strings.TrimSuffix: one trailing suffix is removed, if there is one
TrimSuffix(s, suffix) ==
    IF HasSuffix(s, suffix) THEN SubSeq(s, 1, Len(s) - Len(suffix)) ELSE s

-----------------------------------------------------------------------------
(* types.String and types.Bool of the plugin framework: null, unknown or     *)
(* known; the value of a null or unknown attribute is the zero value.       *)

StringNull == [state |-> "null", value |-> <<>>]
StringUnknown == [state |-> "unknown", value |-> <<>>]
StringValue(s) == [state |-> "known", value |-> s]
BoolNull == [state |-> "null", value |-> FALSE]
BoolValue(b) == [state |-> "known", value |-> b]

IsNull(a) == a.state = "null"
ValueString(a) == IF a.state = "known" THEN a.value ELSE <<>>
ValueBool(a) == IF a.state = "known" THEN a.value ELSE FALSE

-----------------------------------------------------------------------------
(* Diagnostics *)

NoBody == [t |-> "none", v |-> <<>>]

\* AddError(summary, detail): detail is the format, err, status and body what
\* fmt.Sprintf puts into it ("" , 0 and NoBody where the format takes none)
DiagOf(summary, detail, err, status, body) ==
    [severity |-> "error", summary |-> summary, detail |-> detail,
     err |-> err, status |-> status, body |-> body]
Diag(summary, detail) == DiagOf(summary, detail, "", 0, NoBody)

HasError(diags) == \E i \in DOMAIN diags : diags[i].severity = "error"

\* the datasource.ReadResponse before Read has written to it
NoReadResp == [Diagnostics |-> <<>>, State |-> Nil, panicked |-> FALSE]

\* A panic in Read ends the plugin process: no handler runs after it
Running == ~readResp.panicked

-----------------------------------------------------------------------------
(* ProxmoxProviderModel and the configurations the host may send *)

EndpointChars == {"h", "/", "DEL"}
TokenChars == {"u", "!"}

Attrs(strings) == {StringNull, StringUnknown} \cup {StringValue(s) : s \in strings}

Configs ==
    [Endpoint : Attrs(Str(MaxEndpointLen, EndpointChars)),
     TokenID : Attrs(Str(MaxTokenLen, TokenChars)),
     TokenSecret : {StringNull, StringValue(<<"s">>)},
     SkipVerify : {BoolNull, BoolValue(TRUE), BoolValue(FALSE)}]

\* the configuration of the acceptance test, with its default values
testAccStoragesDataSourceConfig ==
    [Endpoint |-> StringValue(<<"h">>),
     TokenID |-> StringValue(<<"u", "!", "u">>),
     TokenSecret |-> StringValue(<<"s">>),
     SkipVerify |-> BoolValue(TRUE)]

-----------------------------------------------------------------------------
(* ProxmoxProvider.Configure *)

NoProvResp == [Diagnostics |-> <<>>, DataSourceData |-> Nil, ResourceData |-> Nil]

MissingEndpoint ==
    Diag("Missing Configuration",
         "The provider cannot create the Proxmox API client as there is a missing or empty value for the Proxmox endpoint.")
MissingTokenID ==
    Diag("Missing Configuration",
         "The provider cannot create the Proxmox API client as there is a missing or empty value for the Proxmox API token ID.")
MissingTokenSecret ==
    Diag("Missing Configuration",
         "The provider cannot create the Proxmox API client as there is a missing or empty value for the Proxmox API token secret.")
InvalidTokenID ==
    Diag("Invalid Token ID Format",
         "The API token ID should contain a '!' character and follow the format 'user@realm!tokenname' (e.g., 'root@pam!mytesttoken').")

\* transport := &http.Transport{}, with TLSClientConfig set when skip_verify is true
Transport(data) ==
    [InsecureSkipVerify |-> ~IsNull(data.SkipVerify) /\ ValueBool(data.SkipVerify)]

\* client := &ProxmoxClient{...}
NewProxmoxClient(data) ==
    [HTTPClient |-> Transport(data),
     Endpoint |-> ValueString(data.Endpoint),
     TokenID |-> ValueString(data.TokenID),
     TokenSecret |-> ValueString(data.TokenSecret)]

TokenIDAlwaysValid(tokenID) == TRUE
\* strings.Contains(tokenID, "!")
TokenIDValid(tokenID) == Contains(tokenID, "!")

ConfigureSkipsSecretCheck(data) ==
    IF IsNull(data.Endpoint) THEN [NoProvResp EXCEPT !.Diagnostics = <<MissingEndpoint>>]
    ELSE IF IsNull(data.TokenID) THEN [NoProvResp EXCEPT !.Diagnostics = <<MissingTokenID>>]
    ELSE IF ~TokenIDValid(ValueString(data.TokenID))
         THEN [NoProvResp EXCEPT !.Diagnostics = <<InvalidTokenID>>]
    ELSE [Diagnostics |-> <<>>,
          DataSourceData |-> Ptr(NewProxmoxClient(data)),
          ResourceData |-> Ptr(NewProxmoxClient(data))]
\* The response Configure leaves for the configuration data.  req.Config.Get
\* fills a model whose fields are all framework types, so it reports nothing.
ConfigureResponse(data) ==
    IF IsNull(data.Endpoint) THEN [NoProvResp EXCEPT !.Diagnostics = <<MissingEndpoint>>]
    ELSE IF IsNull(data.TokenID) THEN [NoProvResp EXCEPT !.Diagnostics = <<MissingTokenID>>]
    ELSE IF IsNull(data.TokenSecret)
         THEN [NoProvResp EXCEPT !.Diagnostics = <<MissingTokenSecret>>]
    ELSE IF ~TokenIDValid(ValueString(data.TokenID))
         THEN [NoProvResp EXCEPT !.Diagnostics = <<InvalidTokenID>>]
    ELSE [Diagnostics |-> <<>>,
          DataSourceData |-> Ptr(NewProxmoxClient(data)),
          ResourceData |-> Ptr(NewProxmoxClient(data))]

\* The host configures a provider instance once.
ProviderConfigure(data) ==
    /\ Running
    /\ provReq = <<>>
    /\ provReq' = <<data>>
    /\ provResp' = ConfigureResponse(data)
    /\ UNCHANGED <<client, dsResp, httpResp, readResp, requests, reads, build, raw, projected>>

-----------------------------------------------------------------------------
(* StoragesDataSource.Configure *)

\* req.ProviderData: nil, the provider's DataSourceData, or a value of another type
NilProviderData == [type |-> "nil", ptr |-> Nil]
ClientProviderData(p) == [type |-> "*ProxmoxClient", ptr |-> p]
OtherProviderData == [type |-> "string", ptr |-> Nil]

ProviderDatas ==
    {NilProviderData, OtherProviderData}
    \cup (IF provResp.DataSourceData = Nil THEN {}
          ELSE {ClientProviderData(provResp.DataSourceData)})

UnexpectedConfigureType ==
    Diag("Unexpected Data Source Configure Type",
         "Expected *ProxmoxClient, got: %T. Please report this issue to the provider developers.")

DataSourceConfigure(providerData) ==
    /\ Running
    /\ IF providerData.type = "nil"
       THEN /\ dsResp' = <<>>
            /\ UNCHANGED client
       ELSE IF providerData.type # "*ProxmoxClient"
       THEN /\ dsResp' = <<UnexpectedConfigureType>>
            /\ UNCHANGED client
       ELSE /\ dsResp' = <<>>
            /\ client' = providerData.ptr
    /\ UNCHANGED <<provReq, provResp, httpResp, readResp, requests, reads, build, raw, projected>>

-----------------------------------------------------------------------------
(* JSON values on the wire, and a body that is no JSON at all *)

JNull == [t |-> "null", v |-> <<>>]
JBool(b) == [t |-> "bool", v |-> b]
JStr(s) == [t |-> "string", v |-> s]
JArr(elems) == [t |-> "array", v |-> elems]
JObj(members) == [t |-> "object", v |-> members]
NotJSON == [t |-> "invalid", v |-> "<html>"]

\* A number is halves/2, or beyond the range of int64 (huge = 1 or -1: 1e300, -1e300)
Float(halves) == [halves |-> halves, huge |-> 0]
HugeFloat(sign) == [halves |-> 0, huge |-> sign]
JNum(f) == [t |-> "number", v |-> f]

EmptyObject == [k \in {} |-> JNull]
Member(k, j) == [x \in {k} |-> j]
\* the object whose members are the pairs <<key, value>> of the set members
Object(members) ==
    [k \in {m[1] : m \in members} |-> (CHOOSE m \in members : m[1] = k)[2]]

-----------------------------------------------------------------------------
(* encoding/json into interface{} and into storageResponse *)

\* the dynamic value json.Unmarshal stores in an interface{}
RECURSIVE DecodeInterface(_)
DecodeInterface(j) ==
    CASE j.t = "null" -> [type |-> "nil", val |-> <<>>]
      [] j.t = "bool" -> [type |-> "bool", val |-> j.v]
      [] j.t = "string" -> [type |-> "string", val |-> j.v]
      [] j.t = "number" -> [type |-> "float64", val |-> j.v]
      [] j.t = "array" ->
            [type |-> "[]interface {}",
             val |-> [i \in DOMAIN j.v |-> DecodeInterface(j.v[i])]]
      [] j.t = "object" ->
            [type |-> "map[string]interface {}",
             val |-> [k \in DOMAIN j.v |-> DecodeInterface(j.v[k])]]

NilMap == [k \in {} |-> [type |-> "nil", val |-> <<>>]]

\* one element of the array into a map[string]interface{}
DecodeMap(j) ==
    CASE j.t = "null" -> [err |-> "", map |-> NilMap]
      [] j.t = "object" ->
            [err |-> "", map |-> [k \in DOMAIN j.v |-> DecodeInterface(j.v[k])]]
      [] OTHER -> [err |-> "UnmarshalTypeError", map |-> NilMap]

\* the value of the field into a []map[string]interface{}
DecodeData(j) ==
    CASE j.t = "null" -> [err |-> "", Data |-> <<>>]
      [] j.t = "array" ->
            [err |-> IF \E i \in DOMAIN j.v : DecodeMap(j.v[i]).err # ""
                     THEN "UnmarshalTypeError" ELSE "",
             Data |-> [i \in DOMAIN j.v |-> DecodeMap(j.v[i]).map]]
      [] OTHER -> [err |-> "UnmarshalTypeError", Data |-> <<>>]

\* the keys that name the field tagged json:"data": the tag itself, or the tag
\* under case folding
DataKeys == {"data", "DATA"}

\* json.Unmarshal(body, &storageResponse).  An object of the wire has at most
\* one member naming the field.
Unmarshal(body) ==
    CASE body.t = "invalid" -> [err |-> "SyntaxError", Data |-> <<>>]
      [] body.t = "null" -> [err |-> "", Data |-> <<>>]
      [] body.t = "object" ->
            IF \E k \in DataKeys : k \in DOMAIN body.v
            THEN DecodeData(body.v[CHOOSE k \in DataKeys : k \in DOMAIN body.v])
            ELSE [err |-> "", Data |-> <<>>]
      [] OTHER -> [err |-> "UnmarshalTypeError", Data |-> <<>>]

-----------------------------------------------------------------------------
(* types.Int64 and the conversion int64(val) of a float64 *)

\* An int64 is lim * 2^63 + value
Int64Null == [state |-> "null", value |-> 0, lim |-> 0]
Int64Value(n) == [state |-> "known", value |-> n.value, lim |-> n.lim]
I64(n) == [value |-> n, lim |-> 0]
MinInt64 == [value |-> 0, lim |-> -1]
MaxInt64 == [value |-> -1, lim |-> 1]

\* A value out of range converts to what the build's instruction set yields
Builds == {"amd64", "arm64"}

InInt64Range(f) == f.huge = 0

ToInt64(f, arch) ==
    IF InInt64Range(f)
    THEN I64(IF f.halves >= 0 THEN f.halves \div 2 ELSE -((-f.halves) \div 2))
    ELSE IF arch = "amd64" THEN MinInt64
    ELSE IF f.huge > 0 THEN MaxInt64 ELSE MinInt64

-----------------------------------------------------------------------------
(* The projection of one raw record: the body of the loop of Read *)

\* val, ok := storageData[key].(type)
IsType(storageData, key, type) ==
    key \in DOMAIN storageData /\ storageData[key].type = type

StringField(storageData, key) ==
    IF IsType(storageData, key, "string")
    THEN StringValue(storageData[key].val)
    ELSE StringNull

ProjectRecord(storageData, arch) ==
    [Storage |-> StringField(storageData, "storage"),
     Type |-> StringField(storageData, "type"),
     Content |-> StringField(storageData, "content"),
     Path |-> StringField(storageData, "path"),
     Priority |-> IF IsType(storageData, "priority", "float64")
                  THEN Int64Value(ToInt64(storageData["priority"].val, arch))
                  ELSE Int64Null,
     Digest |-> StringField(storageData, "digest"),
     PruneBackups |-> StringField(storageData, "prune-backups")]

ProjectAllDedup(data, arch) ==
    IF Len(data) >= 2 /\ data[1] = data[2]
    THEN [i \in 1..(Len(data) - 1) |-> ProjectRecord(data[i + 1], arch)]
    ELSE [i \in DOMAIN data |-> ProjectRecord(data[i], arch)]
\* storages := make([]StorageModel, len(Data)); storages[i] = storage
ProjectAll(data, arch) == [i \in DOMAIN data |-> ProjectRecord(data[i], arch)]

-----------------------------------------------------------------------------
(* The server's answers and the bodies it may send *)

StatusOK == 200
Statuses == {StatusOK, 401, 500}

\* {"storage": "local", "type": "dir", "priority": 10}
LocalDir ==
    Object({<<"storage", JStr("local")>>, <<"type", JStr("dir")>>,
            <<"priority", JNum(Float(20))>>})
\* every key, a second "local", a priority of 1.5
FullRecord ==
    Object({<<"storage", JStr("local")>>, <<"type", JStr("nfs")>>,
            <<"content", JStr("images")>>, <<"path", JStr("/mnt")>>,
            <<"priority", JNum(Float(3))>>, <<"digest", JStr("da39")>>,
            <<"prune-backups", JStr("keep-all=1")>>})
\* {"storage": 5, "priority": "high", "path": null}
Mistyped ==
    Object({<<"storage", JNum(Float(10))>>, <<"priority", JStr("high")>>,
            <<"path", JNull>>})
\* {"storage": "big", "priority": 1e300}
OutOfRange ==
    Object({<<"storage", JStr("big")>>, <<"priority", JNum(HugeFloat(1))>>})

\* what the elements of the array may be
Elements ==
    {JObj(LocalDir), JObj(FullRecord), JObj(Mistyped), JObj(OutOfRange),
     JObj(EmptyObject), JNull, JStr("x")}

StorageList == JObj(Member("data", JArr(<<JObj(LocalDir)>>)))

\* the bodies of a response that is not a list of storages
OtherBodies ==
    {NotJSON, JNull, JNum(Float(2)), JArr(<<>>), JObj(EmptyObject),
     JObj(Member("data", JNull)), JObj(Member("data", JStr("x"))),
     JObj(Member("total", JNum(Float(2)))),
     JObj(Member("DATA", JArr(<<JObj(LocalDir)>>)))}

\* the bodies with at most n elements in the array
Bodies(n) == OtherBodies \cup {JObj(Member("data", JArr(a))) : a \in Str(n, Elements)}

\* HTTPClient.Do returns an error, or a response of which io.ReadAll returns
\* Body and, when readErr, an error
TransportError == [kind |-> "error", StatusCode |-> 0, Body |-> NoBody, readErr |-> FALSE]
Response(status, body, readErr) ==
    [kind |-> "response", StatusCode |-> status, Body |-> body, readErr |-> readErr]

Answers(n) ==
    {TransportError}
    \cup {Response(StatusOK, b, FALSE) : b \in Bodies(n)}
    \cup {Response(StatusOK, b, TRUE) : b \in {NotJSON, StorageList}}
    \cup {Response(s, b, e) : s \in Statuses \ {StatusOK}, b \in {NotJSON, StorageList},
                              e \in BOOLEAN}

-----------------------------------------------------------------------------
(* ProxmoxClient.DoRequest *)

Header(c) ==
    [Authorization |-> <<"PVEAPIToken=">> \o c.TokenID \o <<"=">> \o c.TokenSecret,
     ContentType |-> "application/json"]

URL(c, path) == TrimSuffix(c.Endpoint, <<"/">>) \o <<"/api2/json">> \o <<path>>

\* http.NewRequest parses the URL: a control byte is refused
NewRequestFails(url) == Contains(url, "DEL")

\* the client sends only to a URL that starts with an origin
HasOrigin(url) == url # <<>> /\ url[1] = "h"

NewRequest(c, method, path) ==
    [Method |-> method, URL |-> URL(c, path), Header |-> Header(c),
     InsecureSkipVerify |-> c.HTTPClient.InsecureSkipVerify]

DoRequestRetries(p, method, path, answer) ==
    IF p = Nil
    THEN [panic |-> TRUE, err |-> "", sent |-> <<>>, resp |-> Nil]
    ELSE IF NewRequestFails(URL(Deref(p), path))
    THEN [panic |-> FALSE, err |-> "invalid control character in URL",
          sent |-> <<>>, resp |-> Nil]
    ELSE IF ~HasOrigin(URL(Deref(p), path))
    THEN [panic |-> FALSE, err |-> "unsupported protocol scheme",
          sent |-> <<NewRequest(Deref(p), method, path)>>, resp |-> Nil]
    ELSE IF answer.kind = "error"
    THEN [panic |-> FALSE, err |-> "connection refused",
          sent |-> <<NewRequest(Deref(p), method, path), NewRequest(Deref(p), method, path)>>,
          resp |-> Nil]
    ELSE [panic |-> FALSE, err |-> "",
          sent |-> <<NewRequest(Deref(p), method, path)>>, resp |-> Ptr(answer)]
\* What a call of DoRequest on the client p does when the server would answer
\* with answer: it panics on a nil receiver (c.Endpoint), returns the error of
\* http.NewRequest, or hands one request to HTTPClient.Do and returns its result.
DoRequest(p, method, path, answer) ==
    IF p = Nil
    THEN [panic |-> TRUE, err |-> "", sent |-> <<>>, resp |-> Nil]
    ELSE IF NewRequestFails(URL(Deref(p), path))
    THEN [panic |-> FALSE, err |-> "invalid control character in URL",
          sent |-> <<>>, resp |-> Nil]
    ELSE IF ~HasOrigin(URL(Deref(p), path))
    THEN [panic |-> FALSE, err |-> "unsupported protocol scheme",
          sent |-> <<NewRequest(Deref(p), method, path)>>, resp |-> Nil]
    ELSE IF answer.kind = "error"
    THEN [panic |-> FALSE, err |-> "connection refused",
          sent |-> <<NewRequest(Deref(p), method, path)>>, resp |-> Nil]
    ELSE [panic |-> FALSE, err |-> "",
          sent |-> <<NewRequest(Deref(p), method, path)>>, resp |-> Ptr(answer)]

-----------------------------------------------------------------------------
(* StoragesDataSource.Read *)

ReadFailed(diag) == [Diagnostics |-> <<diag>>, State |-> Nil, panicked |-> FALSE]

\* data.Storages = storages; data.ID = "storages"; resp.State.Set(ctx, &data)
ReadDone(storages) ==
    [Diagnostics |-> <<>>,
     State |-> Ptr([ID |-> StringValue("storages"), Storages |-> storages]),
     panicked |-> FALSE]

ReadResponseServerErrorsOnly(r, arch) ==
    IF r.panic THEN [NoReadResp EXCEPT !.panicked = TRUE]
    ELSE IF r.err # ""
    THEN ReadFailed(DiagOf("Client Error", "Unable to read storages, got error: %s",
                           r.err, 0, NoBody))
    ELSE IF Deref(r.resp).StatusCode >= 500
    THEN ReadFailed(DiagOf("API Error", "Unable to read storages, got status %d: %s",
                           "", Deref(r.resp).StatusCode, Deref(r.resp).Body))
    ELSE IF Deref(r.resp).readErr
    THEN ReadFailed(DiagOf("Read Error", "Unable to read response body: %s",
                           "unexpected EOF", 0, NoBody))
    ELSE IF Unmarshal(Deref(r.resp).Body).err # ""
    THEN ReadFailed(DiagOf("Parse Error", "Unable to parse response: %s",
                           Unmarshal(Deref(r.resp).Body).err, 0, NoBody))
    ELSE ReadDone(ProjectAll(Unmarshal(Deref(r.resp).Body).Data, arch))
ReadResponseEmptyIsError(r, arch) ==
    IF r.panic THEN [NoReadResp EXCEPT !.panicked = TRUE]
    ELSE IF r.err # ""
    THEN ReadFailed(DiagOf("Client Error", "Unable to read storages, got error: %s",
                           r.err, 0, NoBody))
    ELSE IF Deref(r.resp).StatusCode # StatusOK
    THEN ReadFailed(DiagOf("API Error", "Unable to read storages, got status %d: %s",
                           "", Deref(r.resp).StatusCode, Deref(r.resp).Body))
    ELSE IF Deref(r.resp).readErr
    THEN ReadFailed(DiagOf("Read Error", "Unable to read response body: %s",
                           "unexpected EOF", 0, NoBody))
    ELSE IF Unmarshal(Deref(r.resp).Body).err # ""
              \/ Unmarshal(Deref(r.resp).Body).Data = <<>>
    THEN ReadFailed(DiagOf("Parse Error", "Unable to parse response: %s",
                           Unmarshal(Deref(r.resp).Body).err, 0, NoBody))
    ELSE ReadDone(ProjectAll(Unmarshal(Deref(r.resp).Body).Data, arch))
\* the response Read leaves once DoRequest has returned r
ReadResponse(r, arch) ==
    IF r.panic THEN [NoReadResp EXCEPT !.panicked = TRUE]
    ELSE IF r.err # ""
    THEN ReadFailed(DiagOf("Client Error", "Unable to read storages, got error: %s",
                           r.err, 0, NoBody))
    ELSE IF Deref(r.resp).StatusCode # StatusOK
    THEN ReadFailed(DiagOf("API Error", "Unable to read storages, got status %d: %s",
                           "", Deref(r.resp).StatusCode, Deref(r.resp).Body))
    ELSE IF Deref(r.resp).readErr
    THEN ReadFailed(DiagOf("Read Error", "Unable to read response body: %s",
                           "unexpected EOF", 0, NoBody))
    ELSE IF Unmarshal(Deref(r.resp).Body).err # ""
    THEN ReadFailed(DiagOf("Parse Error", "Unable to parse response: %s",
                           Unmarshal(Deref(r.resp).Body).err, 0, NoBody))
    ELSE ReadDone(ProjectAll(Unmarshal(Deref(r.resp).Body).Data, arch))

Read(answer) ==
    /\ Running
    /\ reads < MaxReads
    /\ reads' = reads + 1
    /\ LET r == DoRequest(client, "GET", "/storage", answer) IN
         /\ requests' = requests \o r.sent
         /\ httpResp' = r.resp
         /\ readResp' = ReadResponse(r, build)
    /\ UNCHANGED <<provReq, provResp, client, dsResp, build, raw, projected>>

-----------------------------------------------------------------------------
(* The provider under every configuration *)

Init ==
    /\ provReq = <<>>
    /\ provResp = NoProvResp
    /\ client = Nil
    /\ dsResp = <<>>
    /\ httpResp = Nil
    /\ readResp = NoReadResp
    /\ requests = <<>>
    /\ reads = 0
    /\ build \in Builds
    /\ raw = NilMap
    /\ projected = <<>>

Next ==
    \/ \E data \in Configs : ProviderConfigure(data)
    \/ \E providerData \in ProviderDatas : DataSourceConfigure(providerData)
    \/ \E answer \in Answers(0) : Read(answer)

Spec == Init /\ [][Next]_vars

(* The provider under the configuration of the acceptance test *)

NextAcc ==
    \/ ProviderConfigure(testAccStoragesDataSourceConfig)
    \/ \E providerData \in ProviderDatas : DataSourceConfigure(providerData)
    \/ \E answer \in Answers(MaxRecords) : Read(answer)

SpecAcc == Init /\ [][NextAcc]_vars

(* The projection alone, on every raw record of the bounded shape *)

FieldKeys == {"storage", "type", "content", "path", "priority", "digest", "prune-backups"}

\* a member of the wire for key k: a string, a number, or something else
Sample(k) ==
    CASE k = "storage" -> "local" [] k = "type" -> "dir" [] k = "content" -> "images"
      [] k = "path" -> "/var/lib/vz" [] k = "priority" -> "10" [] k = "digest" -> "da39"
      [] k = "prune-backups" -> "keep-all=1"

Shapes == {"missing", "string", "number"}
PriorityShapes ==
    {"missing", "string", "null", "bool", "number", "3/2", "-3/2", "1e300", "-1e300"}

WireValue(k, shape) ==
    CASE shape = "string" -> JStr(Sample(k))
      [] shape = "null" -> JNull
      [] shape = "bool" -> JBool(TRUE)
      [] shape = "number" -> JNum(Float(20))
      [] shape = "3/2" -> JNum(Float(3))
      [] shape = "-3/2" -> JNum(Float(-3))
      [] shape = "1e300" -> JNum(HugeFloat(1))
      [] shape = "-1e300" -> JNum(HugeFloat(-1))

WireObjects ==
    {[k \in {x \in FieldKeys : shape[x] # "missing"} |-> WireValue(k, shape[k])] :
        shape \in {f \in [FieldKeys -> Shapes \cup PriorityShapes] :
                      \A k \in FieldKeys \ {"priority"} : f[k] \in Shapes}}

\* the raw records json.Unmarshal makes of them
RawRecords == {DecodeMap(JObj(o)).map : o \in WireObjects}

InitProject ==
    /\ provReq = <<>>
    /\ provResp = NoProvResp
    /\ client = Nil
    /\ dsResp = <<>>
    /\ httpResp = Nil
    /\ readResp = NoReadResp
    /\ requests = <<>>
    /\ reads = 0
    /\ build \in Builds
    /\ raw \in RawRecords
    /\ projected = <<>>

Project ==
    /\ projected = <<>>
    /\ projected' = <<ProjectRecord(raw, build)>>
    /\ UNCHANGED <<provReq, provResp, client, dsResp, httpResp, readResp, requests,
                   reads, build, raw>>

NextProject == Project

SpecProject == InitProject /\ [][NextProject]_vars

-----------------------------------------------------------------------------
(* Properties *)

Configured == provReq # <<>>
Config == provReq[1]
Absent(a) == a.state = "null"
LacksSeparator(a) == a.state # "null" /\ \A i \in DOMAIN a.value : a.value[i] # "!"
NoClient == provResp.DataSourceData = Nil /\ provResp.ResourceData = Nil
Fails(diag) == provResp.Diagnostics = <<diag>>
IsMissingConfiguration(diags) ==
    Len(diags) = 1 /\ diags[1].severity = "error" /\ diags[1].summary = "Missing Configuration"

\* C1, as stated: whenever the token identifier of the configuration is a
\* string that lacks the separator '!', Configure fails with Invalid Token ID
\* Format, yields no client, and no request is ever handed to the HTTP client.
C1_InvalidFormatAlways ==
    (Configured /\ Config.TokenID.state = "known" /\ LacksSeparator(Config.TokenID))
        => Fails(InvalidTokenID) /\ NoClient /\ requests = <<>>

\* C1, amended: whenever the token identifier lacks the separator '!', Configure
\* fails, yields no client, and no request is ever handed to the HTTP client;
\* the error is Invalid Token ID Format when the endpoint and the token secret
\* are present, and Missing Configuration when one of them is absent.
C1_InvalidFormat ==
    (Configured /\ LacksSeparator(Config.TokenID))
        => /\ IF Absent(Config.Endpoint) \/ Absent(Config.TokenSecret)
              THEN IsMissingConfiguration(provResp.Diagnostics)
              ELSE Fails(InvalidTokenID)
           /\ NoClient
           /\ client = Nil
           /\ requests = <<>>

\* a token identifier without '!' was refused as such, and a Read came later
C1_Witness ==
    /\ Configured
    /\ Config.TokenID = StringValue(<<"u">>)
    /\ Fails(InvalidTokenID)
    /\ reads > 0

C3_EmptyEndpointRefused ==
    (/\ Configured
     /\ Config.Endpoint = StringValue(<<>>)
     /\ Config.TokenID.state = "known" /\ ~LacksSeparator(Config.TokenID)
     /\ Config.TokenSecret.state = "known")
        => Fails(MissingEndpoint) /\ NoClient

\* C4, as stated: the Endpoint of the client Configure yields never ends with '/'.
C4_DescriptorTrimmed ==
    provResp.DataSourceData # Nil
        => ~HasSuffix(Deref(provResp.DataSourceData).Endpoint, <<"/">>)

\* the URL made of endpoint: one trailing '/' less, then the API prefix and path
ExpectedURL(endpoint, path) ==
    (IF endpoint # <<>> /\ endpoint[Len(endpoint)] = "/"
     THEN [i \in 1..(Len(endpoint) - 1) |-> endpoint[i]]
     ELSE endpoint) \o <<"/api2/json", path>>

\* C4, amended: the client Configure yields holds the configured endpoint as it
\* is; the trailing '/' is trimmed when a request is made: the URL of every
\* request is the endpoint without one trailing '/', then /api2/json and the path.
C4_TrimmedAtRequest ==
    /\ provResp.DataSourceData # Nil
          => /\ Deref(provResp.DataSourceData).Endpoint = Config.Endpoint.value
             /\ provResp.ResourceData = provResp.DataSourceData
    /\ \A i \in DOMAIN requests :
          requests[i].URL = ExpectedURL(Config.Endpoint.value, "/storage")

\* a request went out for an endpoint that ends with '/'
C4_Witness ==
    /\ requests # <<>>
    /\ Config.Endpoint = StringValue(<<"h", "/">>)
    /\ requests[1].URL = <<"h", "/api2/json", "/storage">>

\* the request Read is to make through the client c
IsStorageRequest(req, c) ==
    /\ req.Method = "GET"
    /\ req.URL = ExpectedURL(c.Endpoint, "/storage")
    /\ req.Header.Authorization = <<"PVEAPIToken=">> \o c.TokenID \o <<"=">> \o c.TokenSecret
    /\ req.Header.ContentType = "application/json"

\* C5, as stated (for a data source that has its client): each Read hands
\* exactly one request to the HTTP client, the GET of the storage list.
C5_ExactlyOneRequest ==
    [][(reads' = reads + 1 /\ client # Nil)
          => /\ Len(requests') = Len(requests) + 1
             /\ IsStorageRequest(requests'[Len(requests')], Deref(client))]_vars

\* C5, amended: each Read hands at most one request to the HTTP client and never
\* a second one after a failure; it hands exactly one, the GET of the storage
\* list with the two headers, when the data source has its client and the URL
\* parses, and none when the URL does not parse or the client is unset.
C5_AtMostOneRequest ==
    [][reads' = reads + 1
          => /\ Len(requests') <= Len(requests) + 1
             /\ SubSeq(requests', 1, Len(requests)) = requests
             /\ Len(requests') = Len(requests) + 1
                   <=> (client # Nil /\ \A i \in DOMAIN Deref(client).Endpoint :
                                           Deref(client).Endpoint[i] # "DEL")
             /\ Len(requests') = Len(requests) + 1
                   => IsStorageRequest(requests'[Len(requests')], Deref(client))]_vars

\* two Reads, two requests, the last Read failed
C5_Witness ==
    /\ reads = 2
    /\ Len(requests) = 2
    /\ HasError(readResp.Diagnostics)

Answered == httpResp # Nil
Answer == httpResp[1]
IsError(diags, summary) ==
    Len(diags) = 1 /\ diags[1].severity = "error" /\ diags[1].summary = summary

\* C6: a Read that receives a 200 response whose body is not JSON, or is a JSON
\* object without the member "data", fails with a Parse Error and writes no state.
C6_DecodeError ==
    (/\ Answered
     /\ Answer.StatusCode = 200
     /\ ~Answer.readErr
     /\ \/ Answer.Body.t = "invalid"
        \/ Answer.Body.t = "object" /\ DOMAIN Answer.Body.v \cap {"data", "DATA"} = {})
        => IsError(readResp.Diagnostics, "Parse Error") /\ readResp.State = Nil

\* C7: after every Read, either no error is reported and the state is written,
\* or an error is reported and no state is written.
C7_NoPartialResults ==
    reads > 0
        => \/ ~HasError(readResp.Diagnostics) /\ readResp.State # Nil
           \/ HasError(readResp.Diagnostics) /\ readResp.State = Nil

\* C8: a Read that receives a response whose status is not 200 fails with an
\* API Error that carries the status and the body received, whatever the body
\* holds, and writes no state.
C8_APIError ==
    (Answered /\ Answer.StatusCode # 200)
        => /\ IsError(readResp.Diagnostics, "API Error")
           /\ readResp.Diagnostics[1].status = Answer.StatusCode
           /\ readResp.Diagnostics[1].body = Answer.Body
           /\ readResp.State = Nil

\* a 401 whose body is a well-formed list of storages
C8_Witness ==
    /\ Answered
    /\ Answer.StatusCode = 401
    /\ Answer.Body = StorageList
    /\ IsError(readResp.Diagnostics, "API Error")

\* C9: the storages Read writes are as many as the elements of the array "data"
\* of the body, and the i-th is the projection of the i-th element.
C9_CountAndOrder ==
    (/\ Answered
     /\ readResp.State # Nil
     /\ Answer.Body.t = "object"
     /\ "data" \in DOMAIN Answer.Body.v
     /\ Answer.Body.v["data"].t = "array")
        => LET elems == Answer.Body.v["data"].v
               storages == Deref(readResp.State).Storages
           IN  /\ Len(storages) = Len(elems)
               /\ \A i \in 1..Len(elems) :
                     storages[i] = ProjectRecord(DecodeMap(elems[i]).map, build)

\* two elements with the same identifier, both kept, in the order of the array
C9_Witness ==
    /\ Answered
    /\ readResp.State # Nil
    /\ Answer.Body = JObj(Member("data", JArr(<<JObj(FullRecord), JObj(LocalDir)>>)))
    /\ Len(Deref(readResp.State).Storages) = 2
    /\ Deref(readResp.State).Storages[1].Type = StringValue("nfs")
    /\ Deref(readResp.State).Storages[2].Type = StringValue("dir")

Projected == projected[1]
RawIs(key, type) == key \in DOMAIN raw /\ raw[key].type = type

\* the string field is the raw string under key, or null
StringRule(field, key) ==
    IF RawIs(key, "string") THEN field = [state |-> "known", value |-> raw[key].val]
    ELSE field = [state |-> "null", value |-> <<>>]

StringRules ==
    /\ StringRule(Projected.Storage, "storage")
    /\ StringRule(Projected.Type, "type")
    /\ StringRule(Projected.Content, "content")
    /\ StringRule(Projected.Path, "path")
    /\ StringRule(Projected.Digest, "digest")
    /\ StringRule(Projected.PruneBackups, "prune-backups")

\* n is the number f (halves / 2) without its fraction
Truncated(n, f) ==
    /\ f.huge = 0
    /\ n.lim = 0
    /\ 2 * n.value <= f.halves + 1
    /\ 2 * n.value >= f.halves - 1
    /\ (f.halves >= 0 => 2 * n.value <= f.halves)
    /\ (f.halves <= 0 => 2 * n.value >= f.halves)

\* C10, as stated: each of the seven fields is the raw value (the priority
\* truncated to an integer) when the raw key holds a value of the expected
\* type, and null otherwise.
C10_FieldRule ==
    projected # <<>>
        => /\ StringRules
           /\ IF RawIs("priority", "float64")
              THEN /\ Projected.Priority.state = "known"
                   /\ Truncated(Projected.Priority, raw["priority"].val)
              ELSE Projected.Priority = Int64Null

\* C10, amended: as stated for the six strings; the priority is the raw number
\* truncated toward zero when the number is within the range of int64, and is
\* present with the least or the greatest int64 when it is not.
C10_FieldRuleInRange ==
    projected # <<>>
        => /\ StringRules
           /\ IF RawIs("priority", "float64")
              THEN /\ Projected.Priority.state = "known"
                   /\ IF raw["priority"].val.huge = 0
                      THEN Truncated(Projected.Priority, raw["priority"].val)
                      ELSE Projected.Priority.lim # 0
              ELSE Projected.Priority = Int64Null

\* {storage: "local", type: "dir", priority: 10} and its projection
C10_Witness ==
    /\ raw = DecodeMap(JObj(LocalDir)).map
    /\ projected # <<>>
    /\ Projected =
          [Storage |-> StringValue("local"), Type |-> StringValue("dir"),
           Content |-> StringNull, Path |-> StringNull,
           Priority |-> [state |-> "known", value |-> 10, lim |-> 0],
           Digest |-> StringNull, PruneBackups |-> StringNull]

\* the body is a JSON object whose member "data" is an array of objects and nulls
HasStorageArray(body) ==
    /\ body.t = "object"
    /\ "data" \in DOMAIN body.v
    /\ body.v["data"].t = "array"
    /\ \A i \in DOMAIN body.v["data"].v : body.v["data"].v[i].t \in {"object", "null"}

\* C11: a Read that receives a 200 response and all of its body, the body
\* holding the array "data" of storages, reports no diagnostic and writes a
\* state whose id is "storages" and whose list has one storage per element of
\* the array: none for the empty array.  Any other body the decoder accepts
\* gives the same success, with a list whose count is defined.
C11_Succeeds ==
    (Answered /\ Answer.StatusCode = 200 /\ ~Answer.readErr)
        => /\ (HasStorageArray(Answer.Body) \/ Unmarshal(Answer.Body).err = "")
                => /\ readResp.Diagnostics = <<>>
                   /\ ~readResp.panicked
                   /\ readResp.State # Nil
                   /\ Deref(readResp.State).ID = [state |-> "known", value |-> "storages"]
                   /\ Len(Deref(readResp.State).Storages) \in 0..MaxRecords
           /\ HasStorageArray(Answer.Body)
                => Len(Deref(readResp.State).Storages) = Len(Answer.Body.v["data"].v)

\* {"data": []} was received: no diagnostic, a state with id "storages" and no storage
C11_Witness ==
    /\ Answered
    /\ Answer = Response(200, JObj(Member("data", JArr(<<>>))), FALSE)
    /\ readResp.Diagnostics = <<>>
    /\ readResp.State # Nil
    /\ Deref(readResp.State).ID = StringValue("storages")
    /\ Deref(readResp.State).Storages = <<>>

\* C12: in every sequence of data-source Configure and Read calls, Read is
\* never executed against the unset client: no Read dereferences a nil client,
\* whether no Configure came before it, or one without provider data, or one
\* with provider data of the wrong type.
C12_NoNilDereference ==
    [][(reads' = reads + 1) => (client # Nil /\ ~readResp'.panicked)]_vars

\* every request sent went through a client that provider Configure built
C12_RequestsThroughClient ==
    requests # <<>> => (client # Nil /\ provResp # NoProvResp /\ ~HasError(provResp.Diagnostics))

====
